---- MODULE Spec2Model ----
(***************************************************************************)
(* Model of core_server.py: the dashboard registry (dashboard_containers), *)
(* the port scan (get_free_port), the files the server writes (one config  *)
(* file per key, and extra.env) and the request handlers create_dashboard, *)
(* remove_dashboard, route_dashboard, list_dashboards and index, run by    *)
(* the threads of the Flask server.  Strings are sequences of characters,  *)
(* so that the key f"{user_id}:{dashboard_id}", its split(":") and the     *)
(* basename of a path are computed as the code computes them; a literal    *)
(* the code never looks into ("data", ".json") is one element.  A handler  *)
(* is a sequence of steps, one per access to the shared dictionary or to   *)
(* extra.env and per call to the Docker daemon; code that touches only the *)
(* request's own variables is merged into the step that follows it.        *)
(***************************************************************************)
EXTENDS Integers, Sequences, FiniteSets, TLC

\* ------------------------------------------------------------------ bounds

\* Ports RANGE_START .. RANGE_START + PoolSize - 1 may be free on the host;
\* every other port of the range always has a listener.
PoolSize == 2

\* Containers the Docker daemon creates in one run.
MaxContainers == 2

\* Request threads of the server.
Threads == {"t1", "t2"}

\* Strings are sequences of characters; <<>> is a missing or empty field.
Descriptions == {<<"x">>}
Empty == <<>>

\* The (user_id, dashboard_id) pairs clients send: two of them build the same
\* key, and some lack a field.
ValidPairs == {<<<<"a">>, <<"c">>>>,
               <<<<"a">>, <<"b", ":", "c">>>>,
               <<<<"a", ":", "b">>, <<"c">>>>}
InvalidPairs == {<<Empty, <<"c">>>>, <<<<"a">>, Empty>>}

\* The csv_path values of the create requests: none, and host paths of which
\* two have the same file name in different directories.
NoPath == <<>>
CsvPaths == {NoPath, <<"/", "d", "/", "x">>, <<"/", "e", "/", "x">>, <<"/", "y">>}

\* The user ids of the requests that list.
Users == {ud[1] : ud \in ValidPairs}

\* ------------------------------------------------------- program constants

\* get_free_port: range(8051, 8101)
RANGE_START == 8051
RANGE_STOP == 8101

\* ------------------------------------------------------------------- state

VARIABLES
    dashboard_containers,  \* the registry: key -> info record
    containers,            \* the Docker daemon: container id -> [status, port, bind]
    osInUse,               \* the ports other processes listen on, of those that may be free
    pc,                    \* per thread: the step its request is at
    user_id,               \* per thread: request field
    dashboard_id,          \* per thread: request field
    port,                  \* per thread: local `port` of create_dashboard
    container,             \* per thread: local `container` of create_dashboard
    info,                  \* per thread: existing_info / info, the popped record
    registry_at_call,      \* history: the registry when the create of t1 began
    csv_path,              \* per thread: request field of create_dashboard
    description,           \* per thread: request field of create_dashboard
    extra_env,             \* the file extra.env of CONTAINER_ENV_DIR
    config_files,          \* the files of the configs directory: name -> config
    response               \* per thread: the response its handler returned

vars == <<dashboard_containers, containers, osInUse, pc, user_id, dashboard_id,
          port, container, info, registry_at_call, csv_path, description,
          response, extra_env, config_files>>

files == <<extra_env, config_files>>

shared == <<dashboard_containers, containers, osInUse, extra_env, config_files>>

NoPort == 0
NoContainer == 0
NoInfo == [port |-> NoPort, container |-> NoContainer,
           user_id |-> Empty, dashboard_id |-> Empty]
NoResponse == [op |-> "none", status |-> "none", port |-> NoPort, body |-> {}]

EmptyDict == [k \in {} |-> NoInfo]

PortRange == RANGE_START .. (RANGE_STOP - 1)
FreeablePorts == RANGE_START .. (RANGE_START + PoolSize - 1)
AlwaysBusy == PortRange \ FreeablePorts

ContainerIds == 1 .. MaxContainers
NoWorker == [status |-> "absent", port |-> NoPort, bind |-> NoPath]
NoFiles == [f \in {} |-> [csv_path |-> NoPath]]

\* ------------------------------------------------------------ pure helpers

\* f"{user_id}:{dashboard_id}"
dashboard_key(u, d) == u \o <<":">> \o d

\* dict.pop(key): the dictionary without the key
DictPop(dict, key) == [k \in DOMAIN dict \ {key} |-> dict[k]]

\* dict[key] = rec
DictSet(dict, key, rec) ==
    [k \in DOMAIN dict \cup {key} |-> IF k = key THEN rec ELSE dict[k]]

\* [info['port'] for info in dashboard_containers.values()]
RegistryPorts(dict) == {dict[k].port : k \in DOMAIN dict}

\* is_port_in_use(port): connect_ex to localhost succeeds
is_port_in_use(p, os) == p \in AlwaysBusy \/ p \in os

\* The loop of get_free_port from port p on; NoPort is the raise after it.
RECURSIVE ScanFrom(_, _, _)
ScanFrom(p, dict, os) ==
    IF p >= RANGE_STOP THEN NoPort
    ELSE IF is_port_in_use(p, os) THEN ScanFrom(p + 1, dict, os)
    ELSE IF p \in RegistryPorts(dict) THEN ScanFrom(p + 1, dict, os)
    ELSE p

\* Variant: the scan asks the host only and forgets the registry's ports.
RECURSIVE ScanHostOnly(_, _)
ScanHostOnly(p, os) ==
    IF p >= RANGE_STOP THEN NoPort
    ELSE IF is_port_in_use(p, os) THEN ScanHostOnly(p + 1, os)
    ELSE p

get_free_port_HostOnly(dict, os) == ScanHostOnly(RANGE_START, os)

\* Variant: the scan goes one port past the range, range(8051, 8102).
RECURSIVE ScanPastRange(_, _, _)
ScanPastRange(p, dict, os) ==
    IF p > RANGE_STOP THEN NoPort
    ELSE IF is_port_in_use(p, os) THEN ScanPastRange(p + 1, dict, os)
    ELSE IF p \in RegistryPorts(dict) THEN ScanPastRange(p + 1, dict, os)
    ELSE p

get_free_port_PastRange(dict, os) == ScanPastRange(RANGE_START, dict, os)

get_free_port(dict, os) == ScanFrom(RANGE_START, dict, os)

\* The index of the last "/" of path p, or 0 when it has none.
LastSlash(p) ==
    IF \E i \in 1..Len(p) : p[i] = "/"
    THEN CHOOSE i \in 1..Len(p) :
            p[i] = "/" /\ \A j \in (i + 1)..Len(p) : p[j] # "/"
    ELSE 0

\* Line 81: os.path.basename(csv_path)
basename(p) == SubSeq(p, LastSlash(p) + 1, Len(p))

\* Variant: the whole host path is put under the mount point.
container_csv_path_Full(p) == <<"/", "data", "/", "csvs", "/">> \o p

\* Line 83: f"/data/csvs/{csv_filename}"
container_csv_path(p) == <<"/", "data", "/", "csvs", "/">> \o basename(p)

\* Lines 67-84: the csv_path of the config, the container path when the
\* request gave a host path.
config_csv_path(p) == IF p # NoPath THEN container_csv_path(p) ELSE NoPath

\* Line 90: f"{dashboard_key.replace(':', '_')}.json"
config_filename(key) ==
    [i \in 1..Len(key) |-> IF key[i] = ":" THEN "_" ELSE key[i]] \o <<".json">>

\* The index of the first ":" of s, or Len(s) + 1 when it has none.
FirstColon(s) ==
    IF \E i \in 1..Len(s) : s[i] = ":"
    THEN CHOOSE i \in 1..Len(s) :
            s[i] = ":" /\ \A j \in 1..(i - 1) : s[j] # ":"
    ELSE Len(s) + 1

\* s.split(":"), the list of the pieces of s between its colons
RECURSIVE split(_)
split(s) ==
    IF FirstColon(s) > Len(s)
    THEN <<s>>
    ELSE <<SubSeq(s, 1, FirstColon(s) - 1)>>
             \o split(SubSeq(s, FirstColon(s) + 1, Len(s)))

\* Variant: the comprehension selects the keys that start with the user id.
list_dashboards_ByPrefix(dict, u) ==
    {<<split(k)[2], dict[k].port>> :
        k \in {x \in DOMAIN dict :
                  Len(x) >= Len(u) /\ SubSeq(x, 1, Len(u)) = u}}

\* The dict comprehension of list_dashboards, as its set of (name, port)
\* items; the keys the requests here build give a user no name twice.
list_dashboards(dict, u) ==
    {<<split(k)[2], dict[k].port>> :
        k \in {x \in DOMAIN dict : dict[x].user_id = u}}

\* The dict comprehension of index, as its set of (key, port) items.
index(dict) == {<<k, dict[k].port>> : k \in DOMAIN dict}

\* route_dashboard's answer on a registry: the port, or NoPort for the 404
Resolve(dict, u, d) ==
    IF dashboard_key(u, d) \notin DOMAIN dict
    THEN NoPort
    ELSE dict[dashboard_key(u, d)].port

\* ---------------------------------------------------------- Docker daemon

\* The id of the container the next successful run creates.
NewId == CHOOSE i \in ContainerIds :
            /\ containers[i].status = "absent"
            /\ \A j \in ContainerIds : containers[j].status = "absent" => i <= j

\* The host port p is published by a running container.
PortPublished(p) ==
    \E i \in ContainerIds : containers[i].status = "running" /\ containers[i].port = p

\* container.stop() succeeds on a container that exists
CanStop(h) == h \in ContainerIds /\ containers[h].status \in {"running", "exited"}

\* container.remove() succeeds on a container that is not running
CanRemove(h) == h \in ContainerIds /\ containers[h].status = "exited"

\* A stopped container no longer publishes its port.
Stopped(h) ==
    [containers EXCEPT ![h] = [status |-> "exited", port |-> NoPort, bind |-> NoPath]]
Removed(h) ==
    [containers EXCEPT ![h] = [status |-> "removed", port |-> NoPort, bind |-> NoPath]]

\* ------------------------------------------------------------------- Init

\* The server has just started: nothing is registered, no request is in flight.
Started ==
    /\ dashboard_containers = EmptyDict
    /\ containers = [i \in ContainerIds |-> NoWorker]
    /\ pc = [t \in Threads |-> "idle"]
    /\ user_id = [t \in Threads |-> Empty]
    /\ dashboard_id = [t \in Threads |-> Empty]
    /\ port = [t \in Threads |-> NoPort]
    /\ container = [t \in Threads |-> NoContainer]
    /\ info = [t \in Threads |-> NoInfo]
    /\ registry_at_call = [t \in Threads |-> EmptyDict]
    /\ csv_path = [t \in Threads |-> NoPath]
    /\ description = [t \in Threads |-> Empty]
    /\ extra_env = "absent"
    /\ config_files = NoFiles
    /\ response = [t \in Threads |-> NoResponse]

\* No other process listens on the ports that may be free.
Init ==
    /\ Started
    /\ osInUse = {}

\* Other processes listen on any of the ports that may be free.
SeqInit ==
    /\ Started
    /\ osInUse \in SUBSET FreeablePorts

\* ---------------------------------------------------------- request frame

Key(t) == dashboard_key(user_id[t], dashboard_id[t])

\* What is remembered of the registry as a create begins: the registry, for
\* the client whose calls are compared with it, t1.
Snapshot(t) == IF t = "t1" THEN dashboard_containers ELSE EmptyDict

\* A request with fields u, d, description and csv_path c arrives at an idle
\* thread.
ArriveWith(t, u, d, desc, c) ==
    /\ pc[t] = "idle"
    /\ user_id' = [user_id EXCEPT ![t] = u]
    /\ dashboard_id' = [dashboard_id EXCEPT ![t] = d]
    /\ description' = [description EXCEPT ![t] = desc]
    /\ csv_path' = [csv_path EXCEPT ![t] = c]
    /\ UNCHANGED <<port, container, info>>

Arrive(t, u, d) == ArriveWith(t, u, d, Empty, NoPath)

\* Handler `op` returns `status` (and the port, where the answer has one).
RespondWith(t, op, status, p, body) ==
    /\ response' = [response EXCEPT ![t] =
                        [op |-> op, status |-> status, port |-> p, body |-> body]]
    /\ pc' = [pc EXCEPT ![t] = "done"]

Respond(t, op, status, p) == RespondWith(t, op, status, p, {})

\* The handler goes on to step `next`.
Goto(t, next) ==
    /\ pc' = [pc EXCEPT ![t] = next]
    /\ UNCHANGED response

\* The response is sent; the request's variables die and the thread is idle.
Return(t) ==
    /\ pc[t] = "done"
    /\ pc' = [pc EXCEPT ![t] = "idle"]
    /\ user_id' = [user_id EXCEPT ![t] = Empty]
    /\ dashboard_id' = [dashboard_id EXCEPT ![t] = Empty]
    /\ port' = [port EXCEPT ![t] = NoPort]
    /\ container' = [container EXCEPT ![t] = NoContainer]
    /\ info' = [info EXCEPT ![t] = NoInfo]
    /\ registry_at_call' = [registry_at_call EXCEPT ![t] = EmptyDict]
    /\ csv_path' = [csv_path EXCEPT ![t] = NoPath]
    /\ description' = [description EXCEPT ![t] = Empty]
    /\ response' = [response EXCEPT ![t] = NoResponse]
    /\ UNCHANGED shared

\* ------------------------------------------------------- create_dashboard

\* Variant: extra.env is made sure of before the request is validated.
CreateBegin_LateCheck(t, paths) ==
    /\ \E ud \in ValidPairs \cup InvalidPairs, desc \in Descriptions \cup {Empty},
          c \in paths :
        LET u == ud[1]
            d == ud[2] IN
        /\ ArriveWith(t, u, d, desc, c)
        /\ IF d = Empty \/ u = Empty \/ desc = Empty
           THEN Respond(t, "create", "ValidationError", NoPort)
           ELSE Goto(t, IF dashboard_key(u, d) \in DOMAIN dashboard_containers
                        THEN "create_pop" ELSE "create_files")
    /\ registry_at_call' = [registry_at_call EXCEPT ![t] = Snapshot(t)]
    /\ extra_env' = "placeholder"
    /\ UNCHANGED <<dashboard_containers, containers, osInUse, config_files>>

\* Lines 44-56: read the request, validate, build the key, test membership.
CreateBegin(t, paths) ==
    /\ \E ud \in ValidPairs \cup InvalidPairs, desc \in Descriptions \cup {Empty},
          c \in paths :
        LET u == ud[1]
            d == ud[2] IN
        /\ ArriveWith(t, u, d, desc, c)
        /\ IF d = Empty \/ u = Empty \/ desc = Empty
           THEN Respond(t, "create", "ValidationError", NoPort)
           ELSE Goto(t, IF dashboard_key(u, d) \in DOMAIN dashboard_containers
                        THEN "create_pop" ELSE "create_files")
    /\ registry_at_call' = [registry_at_call EXCEPT ![t] = Snapshot(t)]
    /\ UNCHANGED shared

\* Line 57: existing_info = dashboard_containers.pop(dashboard_key).  The pop
\* is outside the try block: a key another thread removed since line 56 is an
\* unhandled KeyError, Flask's 500.
CreatePop(t) ==
    /\ pc[t] = "create_pop"
    /\ IF Key(t) \in DOMAIN dashboard_containers
       THEN /\ info' = [info EXCEPT ![t] = dashboard_containers[Key(t)]]
            /\ dashboard_containers' = DictPop(dashboard_containers, Key(t))
            /\ Goto(t, "create_stop")
       ELSE /\ Respond(t, "create", "KeyError", NoPort)
            /\ UNCHANGED <<info, dashboard_containers>>
    /\ UNCHANGED <<containers, osInUse, files, user_id, dashboard_id, port, container,
                   registry_at_call, csv_path, description>>

\* Variant: a failure to stop the old container ends the create with a 500.
CreateStopOld_Fatal(t) ==
    /\ pc[t] = "create_stop"
    /\ \E ok \in BOOLEAN :
        IF ok /\ CanStop(info[t].container)
        THEN /\ containers' = Stopped(info[t].container)
             /\ Goto(t, "create_remove")
        ELSE /\ Respond(t, "create", "BackendError", NoPort)
             /\ UNCHANGED containers
    /\ UNCHANGED <<dashboard_containers, osInUse, files, user_id, dashboard_id, port,
                   container, info, registry_at_call, csv_path, description>>

\* Lines 58-59, 61-62: stop the old container; a failure is logged only.
CreateStopOld(t) ==
    /\ pc[t] = "create_stop"
    /\ \E ok \in BOOLEAN :
        IF ok /\ CanStop(info[t].container)
        THEN /\ containers' = Stopped(info[t].container)
             /\ Goto(t, "create_remove")
        ELSE /\ Goto(t, "create_files")
             /\ UNCHANGED containers
    /\ UNCHANGED <<dashboard_containers, osInUse, files, user_id, dashboard_id, port,
                   container, info, registry_at_call, csv_path, description>>

\* Lines 60-62: remove the old container; a failure is logged only.
CreateRemoveOld(t) ==
    /\ pc[t] = "create_remove"
    /\ \E ok \in BOOLEAN :
        IF ok /\ CanRemove(info[t].container)
        THEN containers' = Removed(info[t].container)
        ELSE UNCHANGED containers
    /\ Goto(t, "create_files")
    /\ UNCHANGED <<dashboard_containers, osInUse, files, user_id, dashboard_id, port,
                   container, info, registry_at_call, csv_path, description>>

\* Lines 64-111: the config of the request is written to the file of the
\* key, over the one it has (of the config the csv_path is kept here), and
\* extra.env is looked for.
CreateFiles(t) ==
    /\ pc[t] = "create_files"
    /\ config_files' =
           [f \in DOMAIN config_files \cup {config_filename(Key(t))} |->
               IF f = config_filename(Key(t))
               THEN [csv_path |-> config_csv_path(csv_path[t])]
               ELSE config_files[f]]
    /\ Goto(t, IF extra_env = "absent" THEN "create_env" ELSE "create_port")
    /\ UNCHANGED <<dashboard_containers, containers, osInUse, extra_env, user_id,
                   dashboard_id, port, container, info, registry_at_call,
                   csv_path, description>>

\* Lines 112-113: open(container_env_path, "w") and the placeholder key,
\* over whatever the file has become since line 111 looked for it.
CreateEnv(t) ==
    /\ pc[t] = "create_env"
    /\ extra_env' = "placeholder"
    /\ Goto(t, "create_port")
    /\ UNCHANGED <<dashboard_containers, containers, osInUse, config_files,
                   user_id, dashboard_id, port, container, info,
                   registry_at_call, csv_path, description>>

\* Variant: the entry is written as soon as the port is chosen, before the
\* container is started, and nothing takes it back.
CreateGetPort_Reserve(t) ==
    /\ pc[t] = "create_port"
    /\ LET p == get_free_port(dashboard_containers, osInUse) IN
        /\ dashboard_containers' = DictSet(dashboard_containers, Key(t),
               [port |-> p, container |-> NoContainer,
                user_id |-> user_id[t], dashboard_id |-> dashboard_id[t]])
        /\ IF p = NoPort
           THEN /\ Respond(t, "create", "ResourceExhausted", NoPort)
                /\ UNCHANGED port
           ELSE /\ port' = [port EXCEPT ![t] = p]
                /\ Goto(t, "create_run")
    /\ UNCHANGED <<containers, osInUse, files, user_id, dashboard_id, container,
                   info, registry_at_call, csv_path, description>>

\* Lines 115 and 153-154: port = get_free_port(); its exception is the 500
\* "No free ports available".
CreateGetPort(t) ==
    /\ pc[t] = "create_port"
    /\ LET p == get_free_port(dashboard_containers, osInUse) IN
        IF p = NoPort
        THEN /\ Respond(t, "create", "ResourceExhausted", NoPort)
             /\ UNCHANGED port
        ELSE /\ port' = [port EXCEPT ![t] = p]
             /\ Goto(t, "create_run")
    /\ UNCHANGED <<dashboard_containers, containers, osInUse, files, user_id,
                   dashboard_id, container, info, registry_at_call, csv_path, description>>

\* Variant: a failed run is not noticed and the handler goes on to the write.
CreateRun_Unchecked(t) ==
    /\ pc[t] = "create_run"
    /\ \E ok \in BOOLEAN :
        IF ok /\ ~PortPublished(port[t])
        THEN /\ \E i \in ContainerIds : containers[i].status = "absent"
             /\ containers' = [containers EXCEPT ![NewId] =
                                  [status |-> "running", port |-> port[t],
                                   bind |-> config_csv_path(csv_path[t])]]
             /\ container' = [container EXCEPT ![t] = NewId]
        ELSE UNCHANGED <<containers, container>>
    /\ Goto(t, "create_commit")
    /\ UNCHANGED <<dashboard_containers, osInUse, files, user_id, dashboard_id, port,
                   info, registry_at_call, csv_path, description>>

\* Lines 132-137 and 153-154: client.containers.run(...).  The daemon refuses
\* a host port a running container publishes, and may fail for its own
\* reasons; either is the 500 of the except block.
CreateRun(t) ==
    /\ pc[t] = "create_run"
    /\ \E ok \in BOOLEAN :
        IF ok /\ ~PortPublished(port[t])
        THEN /\ \E i \in ContainerIds : containers[i].status = "absent"
             /\ containers' = [containers EXCEPT ![NewId] =
                                  [status |-> "running", port |-> port[t],
                                   bind |-> config_csv_path(csv_path[t])]]
             /\ container' = [container EXCEPT ![t] = NewId]
             /\ Goto(t, "create_commit")
        ELSE /\ Respond(t, "create", "BackendError", NoPort)
             /\ UNCHANGED <<containers, container>>
    /\ UNCHANGED <<dashboard_containers, osInUse, files, user_id, dashboard_id, port,
                   info, registry_at_call, csv_path, description>>

\* Variant: the write is a setdefault, which keeps an entry the key has.
CreateCommit_KeepExisting(t) ==
    /\ pc[t] = "create_commit"
    /\ dashboard_containers' =
           IF Key(t) \in DOMAIN dashboard_containers
           THEN dashboard_containers
           ELSE DictSet(dashboard_containers, Key(t),
                    [port |-> port[t], container |-> container[t],
                     user_id |-> user_id[t], dashboard_id |-> dashboard_id[t]])
    /\ Respond(t, "create", "ok", port[t])
    /\ UNCHANGED <<containers, osInUse, files, user_id, dashboard_id, port, container,
                   info, registry_at_call, csv_path, description>>

\* Lines 139-151: write the registry entry and answer 200 with the port.
CreateCommit(t) ==
    /\ pc[t] = "create_commit"
    /\ dashboard_containers' = DictSet(dashboard_containers, Key(t),
           [port |-> port[t], container |-> container[t],
            user_id |-> user_id[t], dashboard_id |-> dashboard_id[t]])
    /\ Respond(t, "create", "ok", port[t])
    /\ UNCHANGED <<containers, osInUse, files, user_id, dashboard_id, port, container,
                   info, registry_at_call, csv_path, description>>

\* ------------------------------------------------------- remove_dashboard

\* Variant: the membership test of lines 165-166 is missing.
RemoveBegin_NoTest(t) ==
    /\ \E ud \in ValidPairs \cup InvalidPairs :
        LET u == ud[1]
            d == ud[2] IN
        /\ Arrive(t, u, d)
        /\ IF d = Empty \/ u = Empty
           THEN Respond(t, "remove", "ValidationError", NoPort)
           ELSE Goto(t, "remove_pop")
    /\ registry_at_call' = [registry_at_call EXCEPT ![t] = EmptyDict]
    /\ UNCHANGED shared

\* Lines 158-166: read the request, validate, build the key, test membership.
RemoveBegin(t) ==
    /\ \E ud \in ValidPairs \cup InvalidPairs :
        LET u == ud[1]
            d == ud[2] IN
        /\ Arrive(t, u, d)
        /\ IF d = Empty \/ u = Empty
           THEN Respond(t, "remove", "ValidationError", NoPort)
           ELSE IF dashboard_key(u, d) \notin DOMAIN dashboard_containers
           THEN Respond(t, "remove", "NotFound", NoPort)
           ELSE Goto(t, "remove_pop")
    /\ registry_at_call' = [registry_at_call EXCEPT ![t] = EmptyDict]
    /\ UNCHANGED shared

\* Variant: the record is read with [] and stays in the dictionary.
RemovePop_Get(t) ==
    /\ pc[t] = "remove_pop"
    /\ IF Key(t) \in DOMAIN dashboard_containers
       THEN /\ info' = [info EXCEPT ![t] = dashboard_containers[Key(t)]]
            /\ Goto(t, "remove_stop")
       ELSE /\ Respond(t, "remove", "KeyError", NoPort)
            /\ UNCHANGED info
    /\ UNCHANGED <<dashboard_containers, containers, osInUse, files, user_id,
                   dashboard_id, port, container, registry_at_call, csv_path, description>>

\* Line 168: info = dashboard_containers.pop(dashboard_key); an unhandled
\* KeyError when another thread removed the key since line 165.
RemovePop(t) ==
    /\ pc[t] = "remove_pop"
    /\ IF Key(t) \in DOMAIN dashboard_containers
       THEN /\ info' = [info EXCEPT ![t] = dashboard_containers[Key(t)]]
            /\ dashboard_containers' = DictPop(dashboard_containers, Key(t))
            /\ Goto(t, "remove_stop")
       ELSE /\ Respond(t, "remove", "KeyError", NoPort)
            /\ UNCHANGED <<info, dashboard_containers>>
    /\ UNCHANGED <<containers, osInUse, files, user_id, dashboard_id, port, container,
                   registry_at_call, csv_path, description>>

\* Lines 169-170, 172-173: stop the container; a failure is the 500.
RemoveStop(t) ==
    /\ pc[t] = "remove_stop"
    /\ \E ok \in BOOLEAN :
        IF ok /\ CanStop(info[t].container)
        THEN /\ containers' = Stopped(info[t].container)
             /\ Goto(t, "remove_remove")
        ELSE /\ Respond(t, "remove", "BackendError", NoPort)
             /\ UNCHANGED containers
    /\ UNCHANGED <<dashboard_containers, osInUse, files, user_id, dashboard_id, port,
                   container, info, registry_at_call, csv_path, description>>

\* Lines 171-180: remove the container; a failure is the 500, else the config
\* file is deleted and the answer is 200.  HOST_CONFIGS_DIR has its default,
\* the directory create_dashboard writes to.
RemoveRemove(t) ==
    /\ pc[t] = "remove_remove"
    /\ \E ok \in BOOLEAN :
        IF ok /\ CanRemove(info[t].container)
        THEN /\ containers' = Removed(info[t].container)
             /\ config_files' = [f \in DOMAIN config_files
                                       \ {config_filename(Key(t))} |->
                                    config_files[f]]
             /\ Respond(t, "remove", "ok", NoPort)
        ELSE /\ Respond(t, "remove", "BackendError", NoPort)
             /\ UNCHANGED <<containers, config_files>>
    /\ UNCHANGED <<dashboard_containers, osInUse, extra_env, user_id,
                   dashboard_id, port, container, info, registry_at_call,
                   csv_path, description>>

\* -------------------------------------------------------- route_dashboard

\* Lines 199-201: build the key, test membership.
RouteBegin(t) ==
    /\ \E ud \in ValidPairs :
        LET u == ud[1]
            d == ud[2] IN
        /\ Arrive(t, u, d)
        /\ IF dashboard_key(u, d) \notin DOMAIN dashboard_containers
           THEN Respond(t, "route", "NotFound", NoPort)
           ELSE Goto(t, "route_read")
    /\ registry_at_call' = [registry_at_call EXCEPT ![t] = EmptyDict]
    /\ UNCHANGED shared

\* Variant: the read of the port takes the entry out of the registry.
RouteRead_Pop(t) ==
    /\ pc[t] = "route_read"
    /\ IF Key(t) \in DOMAIN dashboard_containers
       THEN /\ Respond(t, "route", "ok", dashboard_containers[Key(t)].port)
            /\ dashboard_containers' = DictPop(dashboard_containers, Key(t))
       ELSE /\ Respond(t, "route", "KeyError", NoPort)
            /\ UNCHANGED dashboard_containers
    /\ UNCHANGED <<containers, osInUse, files, user_id, dashboard_id, port, container,
                   info, registry_at_call, csv_path, description>>

\* Lines 202-203: read the port and redirect; an unhandled KeyError when
\* another thread removed the key since line 200.
RouteRead(t) ==
    /\ pc[t] = "route_read"
    /\ IF Key(t) \in DOMAIN dashboard_containers
       THEN Respond(t, "route", "ok", dashboard_containers[Key(t)].port)
       ELSE Respond(t, "route", "KeyError", NoPort)
    /\ UNCHANGED <<shared, user_id, dashboard_id, port, container, info,
                   registry_at_call, csv_path, description>>

\* ---------------------------------------------- list_dashboards and index

\* Lines 182-194: the dashboards of one user.  The comprehension makes no
\* blocking call and is taken as one step.
ListDashboards(t) ==
    /\ \E u \in Users \cup {Empty} :
        /\ Arrive(t, u, Empty)
        /\ IF u = Empty
           THEN Respond(t, "list", "ValidationError", NoPort)
           ELSE RespondWith(t, "list", "ok", NoPort,
                            list_dashboards(dashboard_containers, u))
    /\ UNCHANGED <<shared, registry_at_call>>

\* Lines 205-209: every key with its port.
Index(t) ==
    /\ Arrive(t, Empty, Empty)
    /\ RespondWith(t, "index", "ok", NoPort, index(dashboard_containers))
    /\ UNCHANGED <<shared, registry_at_call>>

\* ------------------------------------------------------------ environment

\* A detached container's process ends by itself; its host port is released.
ContainerExit(i) ==
    /\ containers[i].status = "running"
    /\ containers' = Stopped(i)
    /\ UNCHANGED <<dashboard_containers, osInUse, files, pc, user_id, dashboard_id,
                   port, container, info, registry_at_call, csv_path, description, response>>

\* Some other process starts or stops listening on a port of the range.
OsListener(p) ==
    /\ osInUse' = IF p \in osInUse THEN osInUse \ {p} ELSE osInUse \cup {p}
    /\ UNCHANGED <<dashboard_containers, containers, files, pc,
                   user_id, dashboard_id,
                   port, container, info, registry_at_call, csv_path, description, response>>

\* The operator puts the real API keys into extra.env.
SecretsSupplied ==
    /\ extra_env # "supplied"
    /\ extra_env' = "supplied"
    /\ UNCHANGED <<dashboard_containers, containers, osInUse, config_files, pc,
                   user_id, dashboard_id, port, container, info,
                   registry_at_call, csv_path, description, response>>

\* ------------------------------------------------------- specifications

Step(t, paths) ==
    \/ CreateBegin(t, paths)
    \/ CreatePop(t)
    \/ CreateStopOld(t)
    \/ CreateRemoveOld(t)
    \/ CreateFiles(t)
    \/ CreateEnv(t)
    \/ CreateGetPort(t)
    \/ CreateRun(t)
    \/ CreateCommit(t)
    \/ RemoveBegin(t)
    \/ RemovePop(t)
    \/ RemoveStop(t)
    \/ RemoveRemove(t)
    \/ RouteBegin(t)
    \/ RouteRead(t)
    \/ ListDashboards(t)
    \/ Index(t)
    \/ Return(t)

\* Requests are served concurrently, one thread each (app.run, threaded),
\* while the containers started so far run or end.
Next ==
    \/ \E t \in Threads : Step(t, {NoPath})
    \/ \E i \in ContainerIds : ContainerExit(i)

Spec == Init /\ [][Next]_vars

\* One request at a time: a single client that waits for each response, on a
\* host whose other processes come and go on the ports of the range.
SeqNext ==
    \/ Step("t1", {NoPath})
    \/ \E i \in ContainerIds : ContainerExit(i)
    \/ \E p \in FreeablePorts : OsListener(p)

SeqSpec == SeqInit /\ [][SeqNext]_vars

\* One request at a time, the creates with and without a csv_path, while the
\* operator may put the real keys into extra.env.
FileNext ==
    \/ Step("t1", CsvPaths)
    \/ \E i \in ContainerIds : ContainerExit(i)
    \/ SecretsSupplied

FileSpec == Init /\ [][FileNext]_vars

\* ------------------------------------------------------------- vocabulary

\* The handler of thread t has returned `status` from operation `op`.
Returned(t, op, status) ==
    /\ pc[t] = "done"
    /\ response[t].op = op
    /\ response[t].status = status

\* Thread t is inside a create or a remove, past the membership test.
Mutating(t) ==
    pc[t] \in {"create_pop", "create_stop", "create_remove", "create_files",
               "create_env", "create_port", "create_run", "create_commit",
               "remove_pop", "remove_stop", "remove_remove"}

\* The ports of the range that the scan may return on a registry and host.
Eligible(dict, os) ==
    {p \in PortRange : ~is_port_in_use(p, os) /\ p \notin RegistryPorts(dict)}

\* ------------------------------------------------------------------ claims

\* C1: no two registry entries hold the same port, whatever the interleaving
\* of concurrent creates on distinct keys.
C1_PortsDisjoint ==
    \A k1, k2 \in DOMAIN dashboard_containers :
        k1 # k2 => dashboard_containers[k1].port # dashboard_containers[k2].port

\* C2: a remove whose backend stop or remove fails leaves the key's entry in
\* the registry, with its original port and handle, so that resolving the key
\* still gives that port.
C2_FailedRemoveKeepsEntry ==
    \A t \in Threads :
        Returned(t, "remove", "BackendError") =>
            /\ Key(t) \in DOMAIN dashboard_containers
            /\ dashboard_containers[Key(t)] = info[t]
            /\ Resolve(dashboard_containers, user_id[t], dashboard_id[t]) = info[t].port

\* C3: the steps of two mutating operations on the same key never interleave:
\* no two threads are inside a create or remove of one key at the same time.
C3_NoInterleaving ==
    \A t1, t2 \in Threads :
        (t1 # t2 /\ Mutating(t1) /\ Mutating(t2)) => Key(t1) # Key(t2)

\* Witness of C4: a create has replaced an entry; the key's entry is the new one.
C4_Replaced ==
    \E t \in Threads :
        /\ Returned(t, "create", "ok")
        /\ info[t] # NoInfo
        /\ Key(t) \in DOMAIN dashboard_containers
        /\ dashboard_containers[Key(t)].container = container[t]
        /\ dashboard_containers[Key(t)].container # info[t].container

\* Every entry is filed under the key of its own user_id and dashboard_id.
OneEntryPerKey(dict) ==
    \A k \in DOMAIN dict : dashboard_key(dict[k].user_id, dict[k].dashboard_id) = k

\* C4: a key never has two entries, and the write that ends a successful
\* create leaves the key with the new entry only (the new port and the new
\* container): no entry holds the record or the container the create popped.
C4_ReplaceLeavesOnlyNew ==
    [][/\ OneEntryPerKey(dashboard_containers')
       /\ \A t \in Threads :
            (pc[t] = "create_commit" /\ pc'[t] = "done") =>
                /\ Key(t) \in DOMAIN dashboard_containers'
                /\ dashboard_containers'[Key(t)].port = port[t]
                /\ dashboard_containers'[Key(t)].container = container[t]
                /\ \A k \in DOMAIN dashboard_containers' :
                      /\ dashboard_containers'[k].container = container[t]
                            => k = Key(t)
                      /\ info[t] # NoInfo =>
                            dashboard_containers'[k].container # info[t].container
      ]_vars

\* C5: when a create fails at the start of its container, the registry at its
\* return holds no entry for the key, and no entry holds the port the create
\* had chosen, so that the next scan can return that port.
C5_FailedStartLeavesNothing ==
    [][\A t \in Threads :
          (/\ pc[t] = "create_run"
           /\ pc'[t] = "done"
           /\ response'[t].status = "BackendError") =>
              /\ Key(t) \notin DOMAIN dashboard_containers'
              /\ port[t] \notin RegistryPorts(dashboard_containers')
      ]_vars

\* Witness of C6: an entry is registered and its container runs.
C6_Registered ==
    \E t \in Threads :
        /\ Returned(t, "create", "ok")
        /\ Key(t) \in DOMAIN dashboard_containers
        /\ dashboard_containers[Key(t)].container = container[t]
        /\ containers[container[t]].status = "running"

\* C6: the container of every registry entry is one a run has started, on the
\* entry's port if it still runs; while a create has yet to write its entry,
\* no entry shows its container.
C6_EntriesAreStarted ==
    /\ \A k \in DOMAIN dashboard_containers :
          /\ dashboard_containers[k].container \in ContainerIds
          /\ containers[dashboard_containers[k].container].status # "absent"
          /\ containers[dashboard_containers[k].container].status = "running" =>
                containers[dashboard_containers[k].container].port
                    = dashboard_containers[k].port
    /\ \A t \in Threads :
          pc[t] \in {"create_files", "create_env", "create_port", "create_run",
                     "create_commit"} =>
              \A k \in DOMAIN dashboard_containers :
                  /\ dashboard_containers[k].container # NoContainer
                  /\ dashboard_containers[k].container # container[t]

\* Witness of C7: a remove has answered NotFound.
C7_NotFound ==
    \E t \in Threads :
        /\ Returned(t, "remove", "NotFound")
        /\ Key(t) \notin DOMAIN dashboard_containers

\* The step of thread t that takes a remove request with both fields.
RemoveArrives(t) ==
    /\ pc[t] = "idle"
    /\ pc'[t] = "remove_pop" \/ (pc'[t] = "done" /\ response'[t].op = "remove")
    /\ user_id'[t] # Empty
    /\ dashboard_id'[t] # Empty

\* C7: a remove of a key that has no entry answers NotFound at once, having
\* changed neither the registry nor any container.
C7_RemoveAbsentIsNotFound ==
    [][\A t \in Threads :
          (RemoveArrives(t) /\ Key(t)' \notin DOMAIN dashboard_containers) =>
              /\ pc'[t] = "done"
              /\ response'[t].status = "NotFound"
              /\ dashboard_containers' = dashboard_containers
              /\ containers' = containers
      ]_vars

\* Witness of C8: a remove has succeeded on an entry an earlier create wrote.
C8_CreatedThenRemoved ==
    /\ Returned("t1", "remove", "ok")
    /\ info["t1"].port \in PortRange
    /\ containers[info["t1"].container].status = "removed"
    /\ Resolve(dashboard_containers, user_id["t1"], dashboard_id["t1"]) = NoPort

\* C8 (one request at a time): a create that succeeds returns a port of
\* 8051..8100 and the key then resolves to that port; a route answers what the
\* registry holds for the key; after a remove that succeeds the key resolves
\* to NotFound; and no request ends in a KeyError.
C8_CreateResolveRemove ==
    LET now == Resolve(dashboard_containers, user_id["t1"], dashboard_id["t1"]) IN
    /\ Returned("t1", "create", "ok") =>
          /\ response["t1"].port \in PortRange
          /\ response["t1"].port = port["t1"]
          /\ now = response["t1"].port
    /\ Returned("t1", "route", "ok") =>
          /\ now # NoPort
          /\ response["t1"].port = now
    /\ Returned("t1", "route", "NotFound") => now = NoPort
    /\ Returned("t1", "remove", "ok") => now = NoPort
    /\ response["t1"].status # "KeyError"

\* C9 as claimed (one request at a time): after a create that found no free
\* port, the registry is what it was when the create began.
C9_ExhaustedLeavesRegistry ==
    Returned("t1", "create", "ResourceExhausted") =>
        dashboard_containers = registry_at_call["t1"]

\* Witness of C9: a create on a key that had an entry has found no free port.
C9_ExhaustedOnReplace ==
    /\ Returned("t1", "create", "ResourceExhausted")
    /\ Key("t1") \in DOMAIN registry_at_call["t1"]
    /\ info["t1"] = registry_at_call["t1"][Key("t1")]

\* C9 as amended (one request at a time): after a create that found no free
\* port, the key has no entry (the entry it had is the one the create
\* popped) and every other key has the entry it had when the create began.
C9_ExhaustedRemovesOnlyOwnKey ==
    Returned("t1", "create", "ResourceExhausted") =>
        /\ Key("t1") \notin DOMAIN dashboard_containers
        /\ DOMAIN dashboard_containers = DOMAIN registry_at_call["t1"] \ {Key("t1")}
        /\ \A k \in DOMAIN dashboard_containers :
              dashboard_containers[k] = registry_at_call["t1"][k]
        /\ IF Key("t1") \in DOMAIN registry_at_call["t1"]
           THEN info["t1"] = registry_at_call["t1"][Key("t1")]
           ELSE info["t1"] = NoInfo

\* Witness of C10: a scan has passed over a port the registry holds and has
\* returned a higher one.
C10_SkippedRegistered ==
    \E t \in Threads :
        /\ pc[t] = "create_run"
        /\ port[t] > RANGE_START
        /\ RANGE_START \in RegistryPorts(dashboard_containers)
        /\ ~is_port_in_use(RANGE_START, osInUse)

\* C10: whenever a create is about to scan, on whatever registry and set of
\* listeners it finds, the scan returns the lowest port of 8051..8100 that has
\* no listener and is in no entry, and it fails exactly when there is none;
\* the step of create that scans goes on with that port, or answers
\* ResourceExhausted.
C10_LowestEligible ==
    [][\A t \in Threads :
          pc[t] = "create_port" =>
              LET e == Eligible(dashboard_containers, osInUse)
                  p == get_free_port(dashboard_containers, osInUse) IN
              /\ (e = {}) <=> (p = NoPort)
              /\ e # {} => (p \in e /\ \A q \in e : p <= q)
              /\ pc'[t] # "create_port" =>
                    IF e = {}
                    THEN /\ pc'[t] = "done"
                         /\ response'[t].status = "ResourceExhausted"
                    ELSE /\ pc'[t] = "create_run"
                         /\ port'[t] \in e
                         /\ \A q \in e : port'[t] <= q
      ]_vars

\* Witness of C11: a create has succeeded after an earlier container was
\* removed, and its entry is in the registry.
C11_SecondCycle ==
    /\ Returned("t1", "create", "ok")
    /\ Key("t1") \in DOMAIN dashboard_containers
    /\ dashboard_containers[Key("t1")].container = container["t1"]
    /\ \E i \in ContainerIds : containers[i].status = "removed"

\* C11: at every point of a run of successive creates and removes, no pair
\* (user_id, dashboard_id) has more than one entry, and the port of every
\* entry is one of 8051..8100.
C11_OneEntryPortsInRange ==
    /\ \A ud \in ValidPairs :
          Cardinality({k \in DOMAIN dashboard_containers :
                          /\ dashboard_containers[k].user_id = ud[1]
                          /\ dashboard_containers[k].dashboard_id = ud[2]}) <= 1
    /\ \A k \in DOMAIN dashboard_containers :
          /\ dashboard_containers[k].port >= 8051
          /\ dashboard_containers[k].port <= 8100

\* Witness of C16: a create has succeeded although the container of the entry
\* it replaced could not be stopped and removed.
C16_ReplacedDespiteFailure ==
    \E t \in Threads :
        /\ Returned(t, "create", "ok")
        /\ info[t] # NoInfo
        /\ containers[info[t].container].status \in {"running", "exited"}
        /\ Key(t) \in DOMAIN dashboard_containers
        /\ dashboard_containers[Key(t)].container = container[t]

\* C16: the create of a key that has an entry deletes the entry before it
\* tears the old container down; whatever stop and remove answer, the entry
\* stays deleted and the create goes on to the config files and the port
\* scan, never to an error answer.
C16_TeardownNotFatal ==
    [][\A t \in Threads :
          /\ (pc[t] = "create_pop" /\ pc'[t] = "create_stop") =>
                /\ Key(t) \notin DOMAIN dashboard_containers'
                /\ info'[t] = dashboard_containers[Key(t)]
          /\ (pc[t] \in {"create_stop", "create_remove"} /\ pc'[t] # pc[t]) =>
                /\ pc'[t] \in {"create_remove", "create_files"}
                /\ dashboard_containers' = dashboard_containers
                /\ \A k \in DOMAIN dashboard_containers' :
                      dashboard_containers'[k] # info[t]
      ]_vars

\* C19: when no request is in flight, every container that was started and
\* has not been stopped and removed is the container of some registry entry.
C19_NoOrphanWorkers ==
    (\A t \in Threads : pc[t] \in {"idle", "done"}) =>
        \A i \in ContainerIds :
            containers[i].status \in {"running", "exited"} =>
                \E k \in DOMAIN dashboard_containers :
                    dashboard_containers[k].container = i

\* C20: the entry found under the key of a pair (user_id, dashboard_id) of
\* non-empty strings is the entry that pair created: no other pair's create,
\* remove or route reaches it.
C20_PairsDoNotShare ==
    \A ud \in ValidPairs :
        dashboard_key(ud[1], ud[2]) \in DOMAIN dashboard_containers =>
            /\ dashboard_containers[dashboard_key(ud[1], ud[2])].user_id = ud[1]
            /\ dashboard_containers[dashboard_key(ud[1], ud[2])].dashboard_id = ud[2]

\* Witness of C12: a user has listed while the registry held an entry of
\* another user, and the answer has an item.
C12_ListedAmongOthers ==
    \E t \in Threads :
        /\ Returned(t, "list", "ok")
        /\ response[t].body # {}
        /\ \E k \in DOMAIN dashboard_containers :
              dashboard_containers[k].user_id # user_id[t]

\* C12: every item a list for user u answers is the name and port of a
\* registry entry whose user_id is u; an entry of any other user gives no
\* item.
C12_ListOnlyOwnEntries ==
    [][\A t \in Threads :
          (pc[t] = "idle" /\ response'[t].op = "list") =>
              \A item \in response'[t].body :
                  \E k \in DOMAIN dashboard_containers :
                      /\ dashboard_containers[k].user_id = user_id'[t]
                      /\ item = <<split(k)[2], dashboard_containers[k].port>>
      ]_vars

\* C17: a list for user u answers exactly one item per registry entry whose
\* user_id is u: the dashboard_id the entry was created with, and its port.
C17_ListIsIdToPort ==
    [][\A t \in Threads :
          (pc[t] = "idle" /\ response'[t].op = "list"
                          /\ response'[t].status = "ok") =>
              response'[t].body =
                  {<<dashboard_containers[k].dashboard_id,
                     dashboard_containers[k].port>> :
                      k \in {x \in DOMAIN dashboard_containers :
                                dashboard_containers[x].user_id = user_id'[t]}}
      ]_vars

\* Witness of C18: a route, a list and an index have each answered from a
\* registry that holds an entry.
C18_ReadAnswered ==
    /\ dashboard_containers # EmptyDict
    /\ \E t \in Threads : Returned(t, "route", "ok")
    /\ \E t \in Threads :
          pc[t] = "done" /\ response[t].op \in {"list", "index"}
                         /\ response[t].body # {}

\* C18: no step of route_dashboard, list_dashboards or index changes the
\* registry or any container.
C18_ReadsArePure ==
    [][\A t \in Threads :
          (\/ pc[t] = "route_read" /\ pc'[t] # "route_read"
           \/ pc[t] = "idle" /\ pc'[t] = "route_read"
           \/ pc[t] = "idle" /\ response'[t].op \in {"route", "list", "index"}) =>
              /\ dashboard_containers' = dashboard_containers
              /\ containers' = containers
      ]_vars

\* C13: once extra.env exists, no step of a handler changes or deletes it; a
\* create writes the placeholder only while the file is missing; and a remove
\* deletes at most the config file of its own key and changes no other file.
C13_SecretsNeverClobbered ==
    [][/\ (pc' # pc /\ extra_env # "absent") => extra_env' = extra_env
       /\ \A t \in Threads :
             (pc[t] = "create_env" /\ pc'[t] # pc[t]) => extra_env = "absent"
       /\ \A t \in Threads :
             (pc[t] \in {"remove_pop", "remove_stop", "remove_remove"}
                 /\ pc'[t] # pc[t]) =>
                 /\ extra_env' = extra_env
                 /\ DOMAIN config_files \ {config_filename(Key(t))}
                        \subseteq DOMAIN config_files'
                 /\ DOMAIN config_files' \subseteq DOMAIN config_files
                 /\ \A f \in DOMAIN config_files' :
                        config_files'[f] = config_files[f]
      ]_vars

\* Witness of C14: a create with an empty description has been refused
\* while the registry holds an entry.
C14_Refused ==
    /\ Returned("t1", "create", "ValidationError")
    /\ user_id["t1"] # Empty
    /\ dashboard_id["t1"] # Empty
    /\ description["t1"] = Empty
    /\ csv_path["t1"] # NoPath
    /\ dashboard_containers # EmptyDict

\* C14: a create that lacks user_id, dashboard_id or description, and a
\* remove that lacks user_id or dashboard_id, answers ValidationError in its
\* first step, and that step changes neither the registry, nor a container,
\* nor a file.
C14_InvalidHasNoEffect ==
    [][\A t \in Threads :
          LET create == \/ pc'[t] \in {"create_pop", "create_files"}
                        \/ pc'[t] = "done" /\ response'[t].op = "create"
              remove == \/ pc'[t] = "remove_pop"
                        \/ pc'[t] = "done" /\ response'[t].op = "remove"
              lacks == \/ user_id'[t] = Empty
                       \/ dashboard_id'[t] = Empty
                       \/ create /\ description'[t] = Empty
          IN  (pc[t] = "idle" /\ (create \/ remove) /\ lacks) =>
                  /\ pc'[t] = "done"
                  /\ response'[t].status = "ValidationError"
                  /\ dashboard_containers' = dashboard_containers
                  /\ containers' = containers
                  /\ extra_env' = extra_env
                  /\ config_files' = config_files
      ]_vars

\* Witness of C15: a create with csv_path /e/x has succeeded; its container
\* binds /data/csvs/x.
C15_BoundByName ==
    /\ Returned("t1", "create", "ok")
    /\ csv_path["t1"] = <<"/", "e", "/", "x">>
    /\ containers[container["t1"]].bind = <<"/", "data", "/", "csvs", "/", "x">>
    /\ config_files[config_filename(Key("t1"))].csv_path
          = <<"/", "data", "/", "csvs", "/", "x">>

\* C15: for a create with a csv_path, the path written to the config and
\* the path the container binds are both /data/csvs/ followed by the file
\* name of the csv_path, whatever its directory.
C15_CsvPathByBaseName ==
    [][\A t \in Threads :
          LET host == csv_path[t]
              want == <<"/", "data", "/", "csvs", "/", host[Len(host)]>>
          IN  host # NoPath =>
                /\ basename(host) = <<host[Len(host)]>>
                /\ (pc[t] = "create_files" /\ pc'[t] # pc[t]) =>
                      config_files'[config_filename(Key(t))].csv_path = want
                /\ (pc[t] = "create_run" /\ pc'[t] = "create_commit") =>
                      containers'[container'[t]].bind = want
      ]_vars

====
